---------------------------- MODULE Spec2Model ----------------------------
(***************************************************************************)
(* A model of the bencode codec of Bencode.h (src/unnamed/part_000): the   *)
(* document nodes (String, Integer, List, Dictionary), the comparator, the *)
(* dictionary ordering engine, the parser Item::read, the serializer       *)
(* write, and the ownership of heap nodes.                                 *)
(*                                                                         *)
(* Bytes are their ASCII codes, a std::string is a sequence of bytes.      *)
(* A node is modelled twice: as a cell of the heap (what new and delete    *)
(* act on, with children held by address), and as the tree ToTree unfolds  *)
(* from a cell, on which the read-only virtual methods (componentCount,    *)
(* component, compare, write) are defined.                                 *)
(***************************************************************************)
EXTENDS Integers, Sequences, FiniteSets, TLC

VARIABLES
    build,     \* what the build makes of the code's undefined behaviour
    heap,      \* every node ever allocated with new, by address 1..Len(heap)
    caller,    \* the addresses the caller owns (roots returned to it)
    status,    \* "ok", or how the process ended: "crashed", "hung"
    last,      \* the last operation, its arguments and what it returned
    nops,      \* operations performed so far
    na, nb, nc,\* trees: the comparator's inputs; for the codec the tree
               \* the caller built (na) and the tree read (nb)
    cmp        \* results of the comparator on na, nb, nc

vars == <<build, heap, caller, status, last, nops, na, nb, nc, cmp>>

---------------------------------------------------------------------------
(* Bounds of the model *)

\* intmax_t is modelled with IntBits bits (two's complement)
IntBits == 5
\* longest List or Dictionary among the comparator inputs
MaxLen == 2
\* operations of one run of the dictionary machine
MaxOps == 3
\* the bytes of a hash, Hasher::Size, scaled down
Size == 2

IntMax == 2 ^ (IntBits - 1) - 1
IntMin == 0 - 2 ^ (IntBits - 1)

---------------------------------------------------------------------------
(* Bytes *)

NUL == 0
Minus == 45
Plus == 43
Zero == 48
Nine == 57
Colon == 58
TagD == 100
TagE == 101
TagI == 105
TagL == 108
Space == 32
Tab == 9
CarriageReturn == 13

\* #define bencodeNULLEntry "0:"
bencodeNULLEntry == <<Zero, Colon>>

Min(x, y) == IF x < y THEN x ELSE y

Reverse(s) == [i \in 1..Len(s) |-> s[Len(s) + 1 - i]]

\* std::string::compare, by sign: bytes compared as unsigned values, then
\* the lengths
RECURSIVE StrCompareFrom(_, _, _)
StrCompareFrom(x, y, i) ==
    IF i > Len(x) \/ i > Len(y)
    THEN IF Len(x) < Len(y) THEN -1 ELSE IF Len(x) > Len(y) THEN 1 ELSE 0
    ELSE IF x[i] < y[i] THEN -1
    ELSE IF x[i] > y[i] THEN 1
    ELSE StrCompareFrom(x, y, i + 1)

StrCompare(x, y) == StrCompareFrom(x, y, 1)

---------------------------------------------------------------------------
(* Integer arithmetic of C++: / and % truncate toward zero *)

TruncDiv(a, b) == IF a >= 0 THEN a \div b ELSE 0 - ((0 - a) \div b)
TruncMod(a, b) == a - b * TruncDiv(a, b)
Abs(x) == IF x < 0 THEN 0 - x ELSE x

Digits == <<48, 49, 50, 51, 52, 53, 54, 55, 56, 57, 97, 98, 99, 100, 101, 102>>

\* the do-while loop of itoa: the digits, least significant first
RECURSIVE itoaDigits(_, _, _)
itoaDigits(quotient, buffer, base) ==
    LET digit == Abs(TruncMod(quotient, base))
        next == TruncDiv(quotient, base)
        appended == Append(buffer, Digits[digit + 1])
    IN IF next # 0 THEN itoaDigits(next, appended, base) ELSE appended

\* (value + 1) < 1: value + 1 overflows for the largest value, which is
\* undefined; a build either folds the test to value < 0 or wraps
IsNegative(value, b) ==
    IF value = IntMax
    THEN b.overflow = "wraps"
    ELSE value + 1 < 1

\* itoa(value, buffer, base)
itoa(value, buffer, base, b) ==
    IF base < 2 \/ base > 16
    THEN buffer
    ELSE LET digits == itoaDigits(value, buffer, base)
             signed == IF IsNegative(value, b)
                       THEN Append(digits, Minus) ELSE digits
         IN Reverse(signed)

IsDigit(byte) == byte >= Zero /\ byte <= Nine
IsSpace(byte) == byte = Space \/ (byte >= Tab /\ byte <= CarriageReturn)

\* strtoimax(text, NULL, 10): white space, an optional sign, then the
\* longest run of digits; no digits gives 0; out of range saturates
RECURSIVE strtoMagnitude(_, _, _, _)
strtoMagnitude(text, i, acc, limit) ==
    IF i > Len(text) \/ ~IsDigit(text[i])
    THEN acc
    ELSE LET n == acc * 10 + (text[i] - Zero)
         IN IF n >= limit THEN limit
            ELSE strtoMagnitude(text, i + 1, n, limit)

RECURSIVE SkipSpace(_, _)
SkipSpace(text, i) ==
    IF i <= Len(text) /\ IsSpace(text[i]) THEN SkipSpace(text, i + 1) ELSE i

strtoimax(text) ==
    LET i == SkipSpace(text, 1)
        neg == i <= Len(text) /\ text[i] = Minus
        sgn == i <= Len(text) /\ (text[i] = Minus \/ text[i] = Plus)
        j == IF sgn THEN i + 1 ELSE i
    IN IF neg
       THEN 0 - strtoMagnitude(text, j, 0, 0 - IntMin)
       ELSE strtoMagnitude(text, j, 0, IntMax)

---------------------------------------------------------------------------
(* Document nodes as trees *)

NULL == [type |-> "NULL", str |-> <<>>, int |-> 0, items |-> <<>>, pairs |-> <<>>]
String(s) == [type |-> "String", str |-> s, int |-> 0, items |-> <<>>, pairs |-> <<>>]
Integer(v) == [type |-> "Integer", str |-> <<>>, int |-> v, items |-> <<>>, pairs |-> <<>>]
List(its) == [type |-> "List", str |-> <<>>, int |-> 0, items |-> its, pairs |-> <<>>]
Dictionary(ps) == [type |-> "Dictionary", str |-> <<>>, int |-> 0, items |-> <<>>, pairs |-> ps]
Element(k, v) == [first |-> k, second |-> v]

RECURSIVE componentCount(_)
RECURSIVE ListCount(_, _)
RECURSIVE DictionaryCount(_, _)

\* List::componentCount
ListCount(its, i) ==
    IF i > Len(its) THEN 0
    ELSE (IF its[i] # NULL THEN componentCount(its[i]) ELSE 1)
         + ListCount(its, i + 1)

\* Dictionary::componentCount
DictionaryCount(ps, i) ==
    IF i > Len(ps) THEN 0
    ELSE (IF ps[i].first # NULL THEN componentCount(ps[i].first) ELSE 0)
         + (IF ps[i].second # NULL THEN componentCount(ps[i].second) ELSE 0)
         + DictionaryCount(ps, i + 1)

componentCount(t) ==
    CASE t.type = "String" -> 1
      [] t.type = "Integer" -> 1
      [] t.type = "List" -> ListCount(t.items, 1)
      [] t.type = "Dictionary" -> DictionaryCount(t.pairs, 1)

RECURSIVE component(_, _, _, _)
RECURSIVE ListComponent(_, _, _, _, _)
RECURSIVE DictionaryComponent(_, _, _, _, _)

\* the body of the loop of List::component, itemCount counted
ListComponentAt(its, i, index, itemCount, buffer, b) ==
    IF index >= itemCount
    THEN ListComponent(its, i + 1, index - itemCount, buffer, b)
    ELSE IF its[i] = NULL THEN <<>>
    ELSE component(its[i], index, buffer, b)

\* List::component
ListComponent(its, i, index, buffer, b) ==
    IF i > Len(its) THEN <<>>
    ELSE ListComponentAt(its, i, index,
                         IF its[i] = NULL THEN 1 ELSE componentCount(its[i]),
                         buffer, b)

\* the body of the loop of Dictionary::component, firstCount and
\* secondCount counted
DictionaryComponentAt(ps, i, index, firstCount, secondCount, buffer, b) ==
    IF index < firstCount
    THEN IF ps[i].first = NULL THEN <<>>
         ELSE component(ps[i].first, index, buffer, b)
    ELSE IF index - firstCount < secondCount
    THEN IF ps[i].second = NULL THEN <<>>
         ELSE component(ps[i].second, index - firstCount, buffer, b)
    ELSE DictionaryComponent(ps, i + 1, index - firstCount - secondCount, buffer, b)

\* Dictionary::component
DictionaryComponent(ps, i, index, buffer, b) ==
    IF i > Len(ps) THEN <<>>
    ELSE DictionaryComponentAt(
             ps, i, index,
             IF ps[i].first = NULL THEN 1 ELSE componentCount(ps[i].first),
             IF ps[i].second = NULL THEN 1 ELSE componentCount(ps[i].second),
             buffer, b)

\* component(index, buffer): the buffer after the call
component(t, index, buffer, b) ==
    CASE t.type = "String" -> IF index = 0 THEN t.str ELSE buffer
      [] t.type = "Integer" -> IF index = 0 THEN itoa(t.int, <<>>, 10, b) ELSE buffer
      [] t.type = "List" -> ListComponent(t.items, 1, index, buffer, b)
      [] t.type = "Dictionary" -> DictionaryComponent(t.pairs, 1, index, buffer, b)

RECURSIVE compareFrom(_, _, _, _, _, _, _)

\* the body of the loop of Item::compare, after s1 and s2 were filled
compareComponents(x, other, i, max, s1, s2, b) ==
    IF StrCompare(s1, s2) # 0 THEN StrCompare(s1, s2)
    ELSE compareFrom(x, other, i + 1, max, s1, s2, b)

\* the loop of Item::compare: the first result that is not 0, or 0
compareFrom(x, other, i, max, s1, s2, b) ==
    IF i < max
    THEN compareComponents(x, other, i, max,
                           component(x, i, s1, b), component(other, i, s2, b), b)
    ELSE 0

\* compare whose last line forgets that more components sort after
compareNoGreater(x, other, b) ==
    LET c1 == componentCount(x)
        c2 == componentCount(other)
        max == IF c1 < c2 THEN c1 ELSE c2
        result == compareFrom(x, other, 0, max, <<>>, <<>>, b)
    IN IF result # 0 THEN result
       ELSE IF c1 < c2 THEN -1 ELSE 0

\* compare whose loop starts at the second component
compareFromSecond(x, other, b) ==
    LET c1 == componentCount(x)
        c2 == componentCount(other)
        max == IF c1 < c2 THEN c1 ELSE c2
        result == compareFrom(x, other, 1, max, <<>>, <<>>, b)
    IN IF result # 0 THEN result
       ELSE IF c1 < c2 THEN -1 ELSE IF c1 > c2 THEN 1 ELSE 0

\* the last line of Item::compare: result, or the sign of c1 - c2
compareResult(result, c1, c2) ==
    IF result # 0 THEN result
    ELSE IF c1 < c2 THEN -1 ELSE IF c1 > c2 THEN 1 ELSE 0

\* Item::compare, after c1 and c2 were counted
compareCounts(x, other, c1, c2, b) ==
    compareResult(compareFrom(x, other, 0, Min(c1, c2), <<>>, <<>>, b), c1, c2)

\* Item::compare
compare(x, other, b) ==
    compareCounts(x, other, componentCount(x), componentCount(other), b)

---------------------------------------------------------------------------
(* The heap: nodes allocated with new, children held by address *)

\* the null pointer
NullPtr == 0
\* the address of a node on the caller's stack, equal to no heap address
StackPtr == -1

\* a cell whose node was deleted
FreedCell == [type |-> "freed", str |-> <<>>, int |-> 0, items |-> <<>>, pairs |-> <<>>]

\* the nodes allocated and not deleted
Live(h) == {a \in 1..Len(h) : h[a].type \notin {"freed", "freed twice"}}

\* operator new: the lowest free address
New(h, cell) ==
    LET free == {a \in 1..Len(h) : h[a].type = "freed"}
    IN IF free = {}
       THEN [heap |-> Append(h, cell), ptr |-> Len(h) + 1]
       ELSE LET a == CHOOSE x \in free : \A y \in free : x <= y
            IN [heap |-> [h EXCEPT ![a] = cell], ptr |-> a]

\* the children a container holds, null slots left out
Children(cell) ==
    CASE cell.type = "List" ->
            SelectSeq(cell.items, LAMBDA a : a # NullPtr)
      [] cell.type = "Dictionary" ->
            SelectSeq([i \in 1..(2 * Len(cell.pairs)) |->
                          IF i % 2 = 1 THEN cell.pairs[(i + 1) \div 2].first
                          ELSE cell.pairs[i \div 2].second],
                      LAMBDA a : a # NullPtr)
      [] OTHER -> <<>>

\* delete: the destructor deletes the children a container owns
\* (~List, ~Dictionary), then the node is freed; delete NULL does nothing;
\* a second delete of a node is recorded in its cell
RECURSIVE Delete(_, _)
RECURSIVE DeleteAll(_, _)
DeleteAll(h, ptrs) ==
    IF ptrs = <<>> THEN h ELSE DeleteAll(Delete(h, Head(ptrs)), Tail(ptrs))

Delete(h, a) ==
    IF a = NullPtr THEN h
    ELSE IF h[a].type \in {"freed", "freed twice"}
    THEN [h EXCEPT ![a].type = "freed twice"]
    ELSE [DeleteAll(h, Children(h[a])) EXCEPT ![a] = FreedCell]

\* the tree a pointer leads to
RECURSIVE ToTree(_, _)
ToTree(h, a) ==
    IF a = NullPtr THEN NULL
    ELSE CASE h[a].type = "List" ->
                List([i \in 1..Len(h[a].items) |-> ToTree(h, h[a].items[i])])
           [] h[a].type = "Dictionary" ->
                Dictionary([i \in 1..Len(h[a].pairs) |->
                               Element(ToTree(h, h[a].pairs[i].first),
                                       ToTree(h, h[a].pairs[i].second))])
           [] OTHER -> h[a]

InsertAt(s, position, x) ==
    SubSeq(s, 1, position - 1) \o <<x>> \o SubSeq(s, position, Len(s))

RemoveAt(s, position) ==
    SubSeq(s, 1, position - 1) \o SubSeq(s, position + 1, Len(s))

\* a key argument (Item::ConstPtr key): the pointer and the node behind it
HeapKey(h, a) == [ptr |-> a, tree |-> ToTree(h, a)]
StackKey(t) == [ptr |-> StackPtr, tree |-> t]
NullKey == [ptr |-> NullPtr, tree |-> NULL]

\* the while loop of _find with the comparison reversed
RECURSIVE findScan(_, _, _, _, _)
findScanReversed(h, ps, key, position, b) ==
    IF position > Len(ps)
    THEN [position |-> position, crashed |-> FALSE]
    ELSE IF key.ptr = NullPtr \/ ps[position].first = NullPtr
    THEN [position |-> position, crashed |-> TRUE]
    ELSE IF compare(key.tree, ToTree(h, ps[position].first), b) < 0
    THEN findScan(h, ps, key, position + 1, b)
    ELSE [position |-> position, crashed |-> FALSE]

\* the while loop of _find; key->compare(*position->first) through a null
\* key or a null stored key is a call through a null pointer
findScan(h, ps, key, position, b) ==
    IF position > Len(ps)
    THEN [position |-> position, crashed |-> FALSE]
    ELSE IF key.ptr = NullPtr \/ ps[position].first = NullPtr
    THEN [position |-> position, crashed |-> TRUE]
    ELSE IF compare(key.tree, ToTree(h, ps[position].first), b) > 0
    THEN findScan(h, ps, key, position + 1, b)
    ELSE [position |-> position, crashed |-> FALSE]

\* the end of _find that finds a key only by its address
findAtSame(h, ps, key, s, b) ==
    [found |-> ~s.crashed /\ s.position <= Len(ps) /\ ps[s.position].first = key.ptr,
     position |-> s.position, crashed |-> s.crashed]

\* the end of _find, s the position the while loop stopped at: found is
\* position != _items.end() and the stored key is key or compares equal
findAt(h, ps, key, s, b) ==
    IF s.crashed
    THEN [found |-> FALSE, position |-> s.position, crashed |-> TRUE]
    ELSE IF s.position > Len(ps)
    THEN [found |-> FALSE, position |-> s.position, crashed |-> FALSE]
    ELSE IF ps[s.position].first = key.ptr
    THEN [found |-> TRUE, position |-> s.position, crashed |-> FALSE]
    ELSE IF ps[s.position].first = NullPtr \/ key.ptr = NullPtr
    THEN [found |-> FALSE, position |-> s.position, crashed |-> FALSE]
    ELSE [found |-> compare(ToTree(h, ps[s.position].first), key.tree, b) = 0,
          position |-> s.position, crashed |-> FALSE]

\* Dictionary::_find: position is 1..Len, or Len + 1 for _items.end()
_find(h, d, key, b) ==
    findAt(h, h[d].pairs, key, findScan(h, h[d].pairs, key, 1, b), b)

\* a slot of a container: Assignment's Item::Ptr &_item
SlotGet(h, owner, position) ==
    IF h[owner].type = "List" THEN h[owner].items[position]
    ELSE h[owner].pairs[position].second

SlotSet(h, owner, position, value) ==
    IF h[owner].type = "List"
    THEN [h EXCEPT ![owner].items[position] = value]
    ELSE [h EXCEPT ![owner].pairs[position].second = value]

\* operator=(Item::Ptr) that does not delete the node in the slot
AssignItemKeeps(h, owner, position, value) == SlotSet(h, owner, position, value)

\* Assignment::operator=(Item::Ptr value)
AssignItem(h, owner, position, value) ==
    LET item == SlotGet(h, owner, position)
    IN IF value = item THEN h
       ELSE SlotSet(IF item # NullPtr THEN Delete(h, item) ELSE h,
                    owner, position, value)

\* Assignment::operator=(intmax_t value)
AssignInteger(h, owner, position, value) ==
    LET item == SlotGet(h, owner, position)
        n == New(IF item # NullPtr THEN Delete(h, item) ELSE h, Integer(value))
    IN SlotSet(n.heap, owner, position, n.ptr)

\* Assignment::operator=(const std::string &value)
AssignString(h, owner, position, value) ==
    LET item == SlotGet(h, owner, position)
        n == New(IF item # NullPtr THEN Delete(h, item) ELSE h, String(value))
    IN SlotSet(n.heap, owner, position, n.ptr)

\* push that inserts at the front
pushFront(h, l, item) == [h EXCEPT ![l].items = <<item>> \o @]

\* List::push, List::insert(item, _items.size())
push(h, l, item) == [h EXCEPT ![l].items = Append(@, item)]

\* the loop of List::operator[]: fill starts at _items.size() and NULL is
\* pushed while fill <= index
RECURSIVE ListFill(_, _, _, _)
ListFill(h, l, fill, index) ==
    IF fill <= index THEN ListFill(push(h, l, NullPtr), l, fill + 1, index)
    ELSE h

\* operator[] that leaves the list as it is
ListAtAsIs(h, l, index) ==
    [heap |-> h,
     item |-> IF index < Len(h[l].items) THEN h[l].items[index + 1] ELSE NullPtr]

\* List::operator[](uint32_t index), mutable and const: the slot _items[index]
ListAt(h, l, index) ==
    [heap |-> ListFill(h, l, Len(h[l].items), index),
     item |-> ListFill(h, l, Len(h[l].items), index)[l].items[index + 1]]

RECURSIVE clone(_, _, _)
RECURSIVE cloneList(_, _, _, _, _)
RECURSIVE cloneDictionary(_, _, _, _, _)

NoClone(h) == [heap |-> h, ptr |-> NullPtr, end |-> "ok"]

\* operator[], after the second _find returned f
DictionaryInserted(h, f) ==
    [heap |-> h, position |-> f.position,
     end |-> IF f.crashed THEN "crashed" ELSE "ok"]

\* operator[], after _items.insert(position, Element(c, NULL)) gave h
DictionaryRefind(h, d, key, b) == DictionaryInserted(h, _find(h, d, key, b))

\* operator[] that adds the new pair at the end of _items
DictionaryInsertAtEnd(c, d, key, position, b) ==
    IF c.end # "ok"
    THEN [heap |-> c.heap, position |-> 0, end |-> c.end]
    ELSE DictionaryRefind([c.heap EXCEPT ![d].pairs =
                              Append(@, Element(c.ptr, NullPtr))],
                          d, key, b)

\* operator[] when _find did not find key: the pair (c, NULL), c the
\* clone of key or NULL, is inserted at position, then _find runs again
DictionaryInsert(c, d, key, position, b) ==
    IF c.end # "ok"
    THEN [heap |-> c.heap, position |-> 0, end |-> c.end]
    ELSE DictionaryRefind([c.heap EXCEPT ![d].pairs =
                              InsertAt(@, position, Element(c.ptr, NullPtr))],
                          d, key, b)

\* operator[], after the first _find returned f
DictionaryFound(h, d, key, f, b) ==
    IF f.crashed
    THEN [heap |-> h, position |-> 0, end |-> "crashed"]
    ELSE IF f.found
    THEN [heap |-> h, position |-> f.position, end |-> "ok"]
    ELSE DictionaryInsert(IF key.ptr = NullPtr THEN NoClone(h)
                          ELSE clone(h, key.tree, b),
                          d, key, f.position, b)

\* Dictionary::operator[](Item::ConstPtr key), both overloads: the heap
\* after the call and the position of the pair whose value slot the
\* returned handle refers to
DictionaryIndex(h, d, key, b) ==
    DictionaryFound(h, d, key, _find(h, d, key, b), b)

\* List::clone, after the clone c of an item: result->push(c)
cloneListPush(c, its, i, result, b) ==
    IF c.end # "ok" THEN [heap |-> c.heap, ptr |-> NullPtr, end |-> c.end]
    ELSE cloneList(push(c.heap, result, c.ptr), its, i + 1, result, b)

\* the loop of List::clone
cloneList(h, its, i, result, b) ==
    IF i > Len(its)
    THEN [heap |-> h, ptr |-> result, end |-> "ok"]
    ELSE cloneListPush(IF its[i] = NULL THEN NoClone(h) ELSE clone(h, its[i], b),
                       its, i, result, b)

\* Dictionary::clone: (*result)[k]= v, where x is what operator[] returned
cloneDictionaryAssign(x, v, ps, i, result, b) ==
    IF x.end # "ok" THEN [heap |-> x.heap, ptr |-> NullPtr, end |-> x.end]
    ELSE cloneDictionary(AssignItem(x.heap, result, x.position, v.ptr),
                         ps, i + 1, result, b)

\* Dictionary::clone, after the clones v of the value and k of the key
cloneDictionaryKey(k, v, ps, i, result, b) ==
    IF k.end # "ok" THEN [heap |-> k.heap, ptr |-> NullPtr, end |-> k.end]
    ELSE cloneDictionaryAssign(
             DictionaryIndex(k.heap, result, HeapKey(k.heap, k.ptr), b),
             v, ps, i, result, b)

\* Dictionary::clone, after the clone v of the value
cloneDictionaryValue(v, ps, i, result, b) ==
    IF v.end # "ok" THEN [heap |-> v.heap, ptr |-> NullPtr, end |-> v.end]
    ELSE cloneDictionaryKey(IF ps[i].first = NULL THEN NoClone(v.heap)
                            ELSE clone(v.heap, ps[i].first, b),
                            v, ps, i, result, b)

\* the loop of Dictionary::clone
cloneDictionary(h, ps, i, result, b) ==
    IF i > Len(ps)
    THEN [heap |-> h, ptr |-> result, end |-> "ok"]
    ELSE cloneDictionaryValue(IF ps[i].second = NULL THEN NoClone(h)
                              ELSE clone(h, ps[i].second, b),
                              ps, i, result, b)

\* what new returned, as the result of an operation
Made(n) == [heap |-> n.heap, ptr |-> n.ptr, end |-> "ok"]

\* clone() of the node t: String::clone, Integer::clone, List::clone,
\* Dictionary::clone
clone(h, t, b) ==
    CASE t.type = "String" -> Made(New(h, String(t.str)))
      [] t.type = "Integer" -> Made(New(h, Integer(t.int)))
      [] t.type = "List" ->
            cloneList(New(h, List(<<>>)).heap, t.items, 1, New(h, List(<<>>)).ptr, b)
      [] t.type = "Dictionary" ->
            cloneDictionary(New(h, Dictionary(<<>>)).heap, t.pairs, 1,
                            New(h, Dictionary(<<>>)).ptr, b)

\* Dictionary::has_key
has_key(h, d, key, b) == _find(h, d, key, b)

\* remove that deletes the value with the key
removeWithValue(h, d, key, b) ==
    LET f == _find(h, d, key, b)
    IN IF f.crashed THEN [heap |-> h, ptr |-> NullPtr, end |-> "crashed"]
       ELSE IF f.found
       THEN [heap |-> [Delete(Delete(h, h[d].pairs[f.position].first),
                              h[d].pairs[f.position].second)
                          EXCEPT ![d].pairs = RemoveAt(@, f.position)],
             ptr |-> h[d].pairs[f.position].second, end |-> "ok"]
       ELSE [heap |-> h, ptr |-> NullPtr, end |-> "ok"]

\* Dictionary::remove(Item::Ptr key): the heap after the call and the
\* pointer returned
remove(h, d, key, b) ==
    LET f == _find(h, d, key, b)
    IN IF f.crashed THEN [heap |-> h, ptr |-> NullPtr, end |-> "crashed"]
       ELSE IF f.found
       THEN [heap |-> [Delete(h, h[d].pairs[f.position].first)
                          EXCEPT ![d].pairs = RemoveAt(@, f.position)],
             ptr |-> h[d].pairs[f.position].second, end |-> "ok"]
       ELSE [heap |-> h, ptr |-> NullPtr, end |-> "ok"]

---------------------------------------------------------------------------
(* The serializer *)

\* itoa(value, base): returns a reference to its local buffer, which is
\* destroyed on return; what the caller reads through it is undefined:
\* the text, other bytes of the same size, or the read crashes
Dangling(text, b) ==
    IF b.dangling = "garbage" THEN [i \in 1..Len(text) |-> 239] ELSE text

RECURSIVE write(_, _)
RECURSIVE writeAll(_, _)
writeAll(ts, b) ==
    IF ts = <<>> THEN <<>>
    ELSE (IF Head(ts) = NULL THEN bencodeNULLEntry ELSE write(Head(ts), b))
         \o writeAll(Tail(ts), b)

\* String::write, Integer::write, List::write, Dictionary::write: the
\* bytes appended to the output
write(t, b) ==
    CASE t.type = "String" ->
            Dangling(Reverse(itoaDigits(Len(t.str), <<>>, 10)), b)
            \o <<Colon>> \o t.str
      [] t.type = "Integer" ->
            <<TagI>> \o Dangling(itoa(t.int, <<>>, 10, b), b) \o <<TagE>>
      [] t.type = "List" ->
            <<TagL>> \o writeAll(t.items, b) \o <<TagE>>
      [] t.type = "Dictionary" ->
            <<TagD>>
            \o writeAll([i \in 1..(2 * Len(t.pairs)) |->
                            IF i % 2 = 1 THEN t.pairs[(i + 1) \div 2].first
                            ELSE t.pairs[i \div 2].second], b)
            \o <<TagE>>

\* whether write reads through a dangling reference: it does for every
\* String and Integer it reaches
RECURSIVE ReadsDangling(_)
ReadsDangling(t) ==
    CASE t.type \in {"String", "Integer"} -> TRUE
      [] t.type = "List" -> \E i \in 1..Len(t.items) : ReadsDangling(t.items[i])
      [] t.type = "Dictionary" ->
            \E i \in 1..Len(t.pairs) :
                ReadsDangling(t.pairs[i].first) \/ ReadsDangling(t.pairs[i].second)
      [] OTHER -> FALSE

---------------------------------------------------------------------------
(* The parser *)

\* ReferencedStringInput::read(): the byte at _position, or '\0' at the
\* end of the buffer, where _position stays
ReadByte(in, pos) ==
    IF pos < Len(in) THEN [byte |-> in[pos + 1], pos |-> pos + 1]
    ELSE [byte |-> NUL, pos |-> pos]

\* read(bytes, storage) that moves one byte too far
ReadBytesTooFar(in, pos, bytes, storage) ==
    IF pos < Len(in)
    THEN [storage |-> SubSeq(in, pos + 1, Min(pos + bytes, Len(in))),
          pos |-> Min(pos + bytes + 1, Len(in))]
    ELSE [storage |-> <<>>, pos |-> pos]

\* ReferencedStringInput::read(bytes, storage)
ReadBytes(in, pos, bytes, storage) ==
    IF pos < Len(in)
    THEN LET n == IF pos + bytes < Len(in) THEN bytes ELSE Len(in) - pos
         IN [storage |-> SubSeq(in, pos + 1, pos + n), pos |-> pos + n]
    ELSE [storage |-> <<>>, pos |-> pos]

\* ReferencedStringInput::end()
end(in, pos) == Len(in) = 0 \/ pos < Len(in) - 1

\* the loop of Input::read(bytes, storage):
\* while((bytes > 0) && !end()) {storage.append(1, read()); --bytes;}
RECURSIVE InputReadLoop(_, _, _, _)
InputReadLoop(in, pos, bytes, storage) ==
    IF bytes > 0 /\ ~end(in, pos)
    THEN InputReadLoop(in, ReadByte(in, pos).pos, bytes - 1,
                       Append(storage, ReadByte(in, pos).byte))
    ELSE [storage |-> storage, pos |-> pos]

\* Input::read(bytes, storage), run on a ReferencedStringInput:
\* storage.clear(), then the loop
InputRead(in, pos, bytes, storage) == InputReadLoop(in, pos, bytes, <<>>)

\* case 'i': while('e' != (byte= in.read())) buffer.append(1, byte).
\* At the end of the buffer read() returns '\0' and does not move, so
\* every later iteration is the same: the loop does not end
RECURSIVE readIntegerLoop(_, _, _)
readIntegerLoop(in, pos, buffer) ==
    IF pos >= Len(in)
    THEN [buffer |-> buffer, pos |-> pos, end |-> "hung"]
    ELSE LET r == ReadByte(in, pos)
         IN IF r.byte = TagE
            THEN [buffer |-> buffer, pos |-> r.pos, end |-> "ok"]
            ELSE readIntegerLoop(in, r.pos, Append(buffer, r.byte))

\* case '0'..'9': the do-while loop reading the length up to ':'
RECURSIVE readLengthLoop(_, _, _, _)
readLengthLoop(in, pos, byte, buffer) ==
    IF byte < Zero \/ byte > Nine
    THEN [buffer |-> buffer, pos |-> pos, ok |-> FALSE]
    ELSE LET r == ReadByte(in, pos)
         IN IF r.byte = Colon
            THEN [buffer |-> Append(buffer, byte), pos |-> r.pos, ok |-> TRUE]
            ELSE readLengthLoop(in, r.pos, r.byte, Append(buffer, byte))

RECURSIVE _read(_, _, _, _, _)
RECURSIVE readListLoop(_, _, _, _, _)
RECURSIVE readDictionaryLoop(_, _, _, _, _)

\* case 'l', after item= _read(in, byte, buffer)
readListItem(item, in, result, b) ==
    IF item.end # "ok"
    THEN [heap |-> item.heap, pos |-> item.pos, ptr |-> NullPtr, end |-> item.end]
    ELSE IF item.ptr = NullPtr
    THEN [heap |-> Delete(item.heap, result), pos |-> item.pos,
          ptr |-> NullPtr, end |-> "ok"]
    ELSE readListLoop(push(item.heap, result, item.ptr), in, item.pos, result, b)

\* case 'l': the loop up to 'e'
readListLoop(h, in, pos, result, b) ==
    IF ReadByte(in, pos).byte = TagE
    THEN [heap |-> h, pos |-> ReadByte(in, pos).pos, ptr |-> result, end |-> "ok"]
    ELSE readListItem(_read(h, in, ReadByte(in, pos).pos, ReadByte(in, pos).byte, b),
                      in, result, b)

\* case 'd': result->as<Dictionary>()[key]= value, where x is what
\* Dictionary::operator[] returned: it stored a clone of key
readDictionaryAssign(x, value, in, result, b) ==
    IF x.end # "ok"
    THEN [heap |-> x.heap, pos |-> value.pos, ptr |-> NullPtr, end |-> x.end]
    ELSE readDictionaryLoop(AssignItem(x.heap, result, x.position, value.ptr),
                            in, value.pos, result, b)

\* case 'd', after key and value were read: both are deleted with
\* result when either is NULL
readDictionaryPair(key, value, in, result, b) ==
    IF value.end # "ok"
    THEN [heap |-> value.heap, pos |-> value.pos, ptr |-> NullPtr, end |-> value.end]
    ELSE IF key.ptr = NullPtr \/ value.ptr = NullPtr
    THEN [heap |-> Delete(Delete(Delete(value.heap, result), value.ptr), key.ptr),
          pos |-> value.pos, ptr |-> NullPtr, end |-> "ok"]
    ELSE readDictionaryAssign(
             DictionaryIndex(value.heap, result, HeapKey(value.heap, key.ptr), b),
             value, in, result, b)

\* case 'd', after key= _read(in, byte, buffer): the value is read even
\* when key is NULL
readDictionaryValue(key, in, result, b) ==
    IF key.end # "ok"
    THEN [heap |-> key.heap, pos |-> key.pos, ptr |-> NullPtr, end |-> key.end]
    ELSE readDictionaryPair(
             key,
             _read(key.heap, in, ReadByte(in, key.pos).pos, ReadByte(in, key.pos).byte, b),
             in, result, b)

\* case 'd': the loop up to 'e'
readDictionaryLoop(h, in, pos, result, b) ==
    IF ReadByte(in, pos).byte = TagE
    THEN [heap |-> h, pos |-> ReadByte(in, pos).pos, ptr |-> result, end |-> "ok"]
    ELSE readDictionaryValue(
             _read(h, in, ReadByte(in, pos).pos, ReadByte(in, pos).byte, b),
             in, result, b)

\* case 'i', after the loop
readInteger(h, r) ==
    IF r.end # "ok"
    THEN [heap |-> h, pos |-> r.pos, ptr |-> NullPtr, end |-> r.end]
    ELSE [heap |-> New(h, Integer(strtoimax(r.buffer))).heap, pos |-> r.pos,
          ptr |-> New(h, Integer(strtoimax(r.buffer))).ptr, end |-> "ok"]

\* case '0'..'9', after the length was read into buffer
readStringBody(h, in, pos, buffer) ==
    [heap |-> New(h, String(ReadBytes(in, pos, strtoimax(buffer), <<>>).storage)).heap,
     pos |-> ReadBytes(in, pos, strtoimax(buffer), <<>>).pos,
     ptr |-> New(h, String(ReadBytes(in, pos, strtoimax(buffer), <<>>).storage)).ptr,
     end |-> "ok"]

\* the string case without the test of the bytes of the length
readStringAnyLength(h, in, r) == readStringBody(h, in, r.pos, r.buffer)

\* case '0'..'9', after the do-while loop
readString(h, in, r) ==
    IF ~r.ok
    THEN [heap |-> h, pos |-> r.pos, ptr |-> NullPtr, end |-> "ok"]
    ELSE readStringBody(h, in, r.pos, r.buffer)

\* Item::_read(in, type, buffer): the heap and the position after the
\* call and the pointer returned, or that the call does not return
_read(h, in, pos, type, b) ==
    CASE type = TagI -> readInteger(h, readIntegerLoop(in, pos, <<>>))
      [] type >= Zero /\ type <= Nine ->
            readString(h, in, readLengthLoop(in, pos, type, <<>>))
      [] type = TagL ->
            readListLoop(New(h, List(<<>>)).heap, in, pos, New(h, List(<<>>)).ptr, b)
      [] type = TagD ->
            readDictionaryLoop(New(h, Dictionary(<<>>)).heap, in, pos,
                               New(h, Dictionary(<<>>)).ptr, b)
      [] OTHER -> [heap |-> h, pos |-> pos, ptr |-> NullPtr, end |-> "ok"]

\* Item::read(in) on a ReferencedStringInput over the buffer in
ItemRead(h, in, pos, b) ==
    _read(h, in, ReadByte(in, pos).pos, ReadByte(in, pos).byte, b)

---------------------------------------------------------------------------
(* What a build makes of the undefined behaviour in the code *)

Builds ==
    [overflow : {"folds", "wraps"}, dangling : {"intact", "garbage", "crash"}]

---------------------------------------------------------------------------
(* Inputs of the comparator: constructed nodes of every variant, with null *)
(* slots, Integer and String of equal text, prefixes, nested containers    *)

SeqsUpTo(S, n) == UNION {[1..k -> S] : k \in 0..n}

\* a pair sequence as a Dictionary holds it: no null key, keys ascending
IsOrdered(ps, b) ==
    /\ \A i \in 1..Len(ps) : ps[i].first # NULL
    /\ \A i \in 1..(Len(ps) - 1) : compare(ps[i].first, ps[i + 1].first, b) < 0

CmpLeaves ==
    {String(s) : s \in {<<>>, <<53>>, <<97>>}} \cup {Integer(v) : v \in {5, 9, 10, -1, -2, IntMax}}
CmpListElems == {NULL, String(<<97>>)}
CmpKeys == {String(<<53>>), Integer(5), String(<<97>>)}
CmpVals == {NULL, String(<<>>)}
CmpLists == {List(its) : its \in SeqsUpTo(CmpListElems, MaxLen)}
CmpDictionaries(b) ==
    {Dictionary(ps) :
        ps \in {q \in SeqsUpTo({Element(k, v) : k \in CmpKeys, v \in CmpVals}, MaxLen) :
                  IsOrdered(q, b)}}
CmpInner == {Dictionary(<<Element(String(<<97>>), NULL)>>), List(<<NULL>>)}
CmpNested ==
    {List(<<x, String(<<97>>)>>) : x \in CmpInner}
    \cup {Dictionary(<<Element(x, y)>>) : x \in CmpInner, y \in {NULL} \cup CmpInner}
CmpNodes(b) == CmpLeaves \cup CmpLists \cup CmpDictionaries(b) \cup CmpNested

NoOp == [op |-> "none"]

InitCommon ==
    /\ build \in Builds
    /\ heap = <<>>
    /\ caller = {}
    /\ status = "ok"
    /\ last = NoOp
    /\ nops = 0
    /\ cmp = NoOp

---------------------------------------------------------------------------
(* The comparator on three nodes *)

InitCompare ==
    /\ InitCommon
    /\ build.dangling = "intact"
    /\ na \in CmpNodes(build)
    /\ nb \in CmpNodes(build)
    /\ nc \in CmpNodes(build)

\* the relational operators of Item all call compare
CompareNodes ==
    /\ cmp = NoOp
    /\ cmp' = [op |-> "compare",
               aa |-> compare(na, na, build),
               ab |-> compare(na, nb, build),
               ba |-> compare(nb, na, build),
               bc |-> compare(nb, nc, build),
               ac |-> compare(na, nc, build)]
    /\ UNCHANGED <<build, heap, caller, status, last, nops, na, nb, nc>>

NextCompare == CompareNodes

SpecCompare == InitCompare /\ [][NextCompare]_vars

---------------------------------------------------------------------------
(* componentCount and component on one node *)

InitFlatten ==
    /\ InitCommon
    /\ build.dangling = "intact"
    /\ na \in CmpNodes(build)
    /\ nb = NULL
    /\ nc = NULL

\* componentCount(), then component(i) for every i below it, each into a
\* fresh buffer
Flatten ==
    /\ last = NoOp
    /\ last' = [op |-> "flatten",
                count |-> componentCount(na),
                components |-> [i \in 1..componentCount(na) |->
                                   component(na, i - 1, <<>>, build)]]
    /\ UNCHANGED <<build, heap, caller, status, nops, na, nb, nc, cmp>>

NextFlatten == Flatten

SpecFlatten == InitFlatten /\ [][NextFlatten]_vars

---------------------------------------------------------------------------
(* The dictionary engine and the ownership of nodes: a caller that decodes *)
(* dictionaries, creates them, indexes them with and without assignment,   *)
(* asks has_key, removes pairs, clones and deletes what it owns            *)

\* wire forms decoded
DictionaryWires ==
    {<<100, 49, 58, 97, 49, 58, 98, 101>>,                          \* d1:a1:be
     <<100, 49, 58, 97, 49, 58, 120, 49, 58, 53, 49, 58, 121, 101>>, \* d1:a1:x1:51:ye
     <<100, 49, 58, 53, 49, 58, 120, 105, 53, 101, 49, 58, 121, 101>>, \* d1:51:xi5e1:ye
     <<100, 49, 58, 97, 49, 58, 98, 120>>,                          \* d1:a1:bx
     <<108, 100, 49, 58, 97, 49, 58, 98, 101, 120, 101>>}           \* ld1:a1:bexe

\* keys passed by the caller: String("a"), String("b"), String("5") and
\* Integer(5) on its stack, and the null pointer
StackKeys ==
    {StackKey(String(<<97>>)), StackKey(String(<<98>>)),
     StackKey(String(<<53>>)), StackKey(Integer(5))}

\* the Dictionaries the caller owns
OwnedDictionaries == {d \in caller : heap[d].type = "Dictionary"}

\* the keys the caller can pass for d: the above, and the pointer to the
\* first stored key, which keys() hands out
KeysFor(d) ==
    StackKeys \cup {NullKey}
    \cup (IF heap[d].pairs # <<>> /\ heap[d].pairs[1].first # NullPtr
          THEN {HeapKey(heap, heap[d].pairs[1].first)} ELSE {})

InitDictionary ==
    /\ InitCommon
    /\ build.dangling = "intact"
    /\ na = NULL /\ nb = NULL /\ nc = NULL

Running == status = "ok" /\ nops < MaxOps

Frame == UNCHANGED <<build, na, nb, nc, cmp>>

\* Item::read on a ReferencedStringInput over w
Read(w) ==
    /\ Running
    /\ \E r \in {ItemRead(heap, w, 0, build)} :
          /\ heap' = r.heap
          /\ status' = r.end
          /\ caller' = IF r.end = "ok" /\ r.ptr # NullPtr
                       THEN caller \cup {r.ptr} ELSE caller
          /\ last' = [op |-> "read", input |-> w, ptr |-> r.ptr, pos |-> r.pos,
                      live |-> Live(heap)]
    /\ nops' = nops + 1
    /\ Frame

\* new Dictionary()
NewDictionary ==
    /\ Running
    /\ \E n \in {New(heap, Dictionary(<<>>))} :
          /\ heap' = n.heap
          /\ caller' = caller \cup {n.ptr}
          /\ last' = [op |-> "new", ptr |-> n.ptr]
    /\ nops' = nops + 1
    /\ UNCHANGED status
    /\ Frame

\* the node in the slot the handle x refers to, before the assignment
Occupant(x, d) == IF x.end = "ok" THEN SlotGet(x.heap, d, x.position) ELSE NullPtr

\* the node a pair of d holds under key, if there is such a pair: the
\* caller gets the pointer from d[key]
HeldAt(d, f) == IF ~f.crashed /\ f.found THEN {heap[d].pairs[f.position].second} ELSE {}
HeldUnder(d, key) == HeldAt(d, _find(heap, d, key, build))

\* d[key] without assignment, mutable or const
Index(d, key) ==
    /\ Running
    /\ \E x \in {DictionaryIndex(heap, d, key, build)} :
          /\ heap' = x.heap
          /\ status' = x.end
          /\ last' = [op |-> "index", owner |-> d, key |-> key, position |-> x.position,
                      before |-> heap[d].pairs, live |-> Live(heap)]
    /\ nops' = nops + 1
    /\ UNCHANGED caller
    /\ Frame

\* d[key]= value, for a string value
IndexAssignString(d, key, value) ==
    /\ Running
    /\ \E x \in {DictionaryIndex(heap, d, key, build)} :
          /\ heap' = IF x.end = "ok"
                     THEN AssignString(x.heap, d, x.position, value) ELSE x.heap
          /\ status' = x.end
          /\ last' = [op |-> "assign", owner |-> d, key |-> key, position |-> x.position,
                      kind |-> "string", value |-> value, old |-> Occupant(x, d),
                      tree |-> ToTree(x.heap, Occupant(x, d)),
                      live |-> Live(x.heap)]
    /\ nops' = nops + 1
    /\ UNCHANGED caller
    /\ Frame

\* d[key]= value, for an integer value
IndexAssignInteger(d, key, value) ==
    /\ Running
    /\ \E x \in {DictionaryIndex(heap, d, key, build)} :
          /\ heap' = IF x.end = "ok"
                     THEN AssignInteger(x.heap, d, x.position, value) ELSE x.heap
          /\ status' = x.end
          /\ last' = [op |-> "assign", owner |-> d, key |-> key, position |-> x.position,
                      kind |-> "integer", value |-> value, old |-> Occupant(x, d),
                      tree |-> ToTree(x.heap, Occupant(x, d)),
                      live |-> Live(x.heap)]
    /\ nops' = nops + 1
    /\ UNCHANGED caller
    /\ Frame

\* d[key]= value, for a node the caller owns, for NULL, or for the node
\* the slot already holds: the slot takes it
IndexAssignItem(d, key, value) ==
    /\ Running
    /\ \E x \in {DictionaryIndex(heap, d, key, build)} :
          /\ heap' = IF x.end = "ok"
                     THEN AssignItem(x.heap, d, x.position, value) ELSE x.heap
          /\ status' = x.end
          /\ caller' = IF x.end = "ok" THEN caller \ {value} ELSE caller
          /\ last' = [op |-> "assign", owner |-> d, key |-> key, position |-> x.position,
                      kind |-> "item", value |-> value, old |-> Occupant(x, d),
                      tree |-> ToTree(x.heap, Occupant(x, d)),
                      live |-> Live(x.heap),
                      given |-> ToTree(x.heap, value)]
    /\ nops' = nops + 1
    /\ Frame

\* d.has_key(key)
HasKey(d, key) ==
    /\ Running
    /\ \E f \in {has_key(heap, d, key, build)} :
          /\ status' = IF f.crashed THEN "crashed" ELSE "ok"
          /\ last' = [op |-> "has_key", owner |-> d, key |-> key, found |-> f.found,
                      before |-> heap[d].pairs, live |-> Live(heap)]
    /\ nops' = nops + 1
    /\ UNCHANGED <<heap, caller>>
    /\ Frame

\* d.remove(key): the value returned belongs to the caller
Remove(d, key) ==
    /\ Running
    /\ \E r \in {remove(heap, d, key, build)} :
          /\ heap' = r.heap
          /\ status' = r.end
          /\ caller' = IF r.ptr # NullPtr THEN caller \cup {r.ptr} ELSE caller
          /\ last' = [op |-> "remove", owner |-> d, key |-> key, ptr |-> r.ptr,
                      before |-> heap[d].pairs, tree |-> ToTree(heap, d),
                      live |-> Live(heap)]
    /\ nops' = nops + 1
    /\ Frame

\* r->clone()
Clone(r) ==
    /\ Running
    /\ \E c \in {clone(heap, ToTree(heap, r), build)} :
          /\ heap' = c.heap
          /\ status' = c.end
          /\ caller' = IF c.end = "ok" THEN caller \cup {c.ptr} ELSE caller
          /\ last' = [op |-> "clone", source |-> r, ptr |-> c.ptr,
                      tree |-> ToTree(heap, r), pre |-> heap]
    /\ nops' = nops + 1
    /\ Frame

\* delete r
DeleteRoot(r) ==
    /\ Running
    /\ heap' = Delete(heap, r)
    /\ caller' = caller \ {r}
    /\ last' = [op |-> "delete", ptr |-> r]
    /\ nops' = nops + 1
    /\ UNCHANGED status
    /\ Frame

Next ==
    \/ \E w \in DictionaryWires : Read(w)
    \/ NewDictionary
    \/ \E d \in OwnedDictionaries : \E key \in KeysFor(d) : Index(d, key)
    \/ \E d \in OwnedDictionaries : \E key \in KeysFor(d) :
          IndexAssignString(d, key, <<97>>)
    \/ \E d \in OwnedDictionaries : \E key \in KeysFor(d) :
          IndexAssignInteger(d, key, 5)
    \/ \E d \in OwnedDictionaries : \E key \in KeysFor(d) :
          \E value \in (caller \ {d}) \cup {NullPtr} \cup HeldUnder(d, key) :
              IndexAssignItem(d, key, value)
    \/ \E d \in OwnedDictionaries : \E key \in KeysFor(d) : HasKey(d, key)
    \/ \E d \in OwnedDictionaries : \E key \in KeysFor(d) : Remove(d, key)
    \/ \E r \in caller : Clone(r)
    \/ \E r \in caller : DeleteRoot(r)

Spec == InitDictionary /\ [][Next]_vars

---------------------------------------------------------------------------
(* Lists the caller builds and indexes *)

OwnedLists == {l \in caller : heap[l].type = "List"}

InitList ==
    /\ InitCommon
    /\ na = NULL /\ nb = NULL /\ nc = NULL

\* new List()
NewList ==
    /\ Running
    /\ \E n \in {New(heap, List(<<>>))} :
          /\ heap' = n.heap
          /\ caller' = caller \cup {n.ptr}
          /\ last' = [op |-> "new", ptr |-> n.ptr]
    /\ nops' = nops + 1
    /\ UNCHANGED status
    /\ Frame

\* l->push(value), List::push(const std::string &)
PushString(l, value) ==
    /\ Running
    /\ \E n \in {New(heap, String(value))} :
          /\ heap' = push(n.heap, l, n.ptr)
          /\ last' = [op |-> "push", owner |-> l, ptr |-> n.ptr]
    /\ nops' = nops + 1
    /\ UNCHANGED <<caller, status>>
    /\ Frame

\* (*l)[index], on a List when const is FALSE and on a const List when it
\* is TRUE
ListIndex(l, index, const) ==
    /\ Running
    /\ \E x \in {ListAt(heap, l, index)} :
          /\ heap' = x.heap
          /\ last' = [op |-> "at", owner |-> l, index |-> index, const |-> const,
                      item |-> x.item, before |-> heap[l].items, pre |-> heap]
    /\ nops' = nops + 1
    /\ UNCHANGED <<caller, status>>
    /\ Frame

NextList ==
    \/ NewList
    \/ \E l \in OwnedLists : PushString(l, <<97>>)
    \/ \E l \in OwnedLists : \E index \in 0..(MaxLen + 1) : ListIndex(l, index, FALSE)
    \/ \E l \in OwnedLists : \E index \in 0..(MaxLen + 1) : ListIndex(l, index, TRUE)

SpecList == InitList /\ [][NextList]_vars

---------------------------------------------------------------------------
(* A ReferencedStringInput the caller reads into a string it keeps *)

\* ReferencedStringInput(buffer): _position(0); storage is the caller's
InitInput ==
    /\ build \in Builds
    /\ build.dangling = "intact"
    /\ heap = <<>> /\ caller = {} /\ status = "ok" /\ nops = 0
    /\ na = NULL /\ nb = NULL /\ nc = NULL /\ cmp = NoOp
    /\ \E buffer \in SeqsUpTo({97, 98}, MaxLen + 1) :
       \E storage \in {<<>>, <<120>>} :
          last = [op |-> "open", input |-> buffer, pos |-> 0, storage |-> storage]

\* in.read(bytes, storage): ReferencedStringInput::read when base is FALSE,
\* in.Input::read when it is TRUE
ReadInto(bytes, base) ==
    /\ Running
    /\ \E r \in {IF base THEN InputRead(last.input, last.pos, bytes, last.storage)
                 ELSE ReadBytes(last.input, last.pos, bytes, last.storage)} :
          last' = [op |-> "read into", base |-> base, input |-> last.input,
                   bytes |-> bytes, pos |-> r.pos, storage |-> r.storage,
                   from |-> last.pos, held |-> last.storage]
    /\ nops' = nops + 1
    /\ UNCHANGED <<heap, caller, status>>
    /\ Frame

\* in.read()
ReadOne ==
    /\ Running
    /\ \E r \in {ReadByte(last.input, last.pos)} :
          last' = [op |-> "read byte", input |-> last.input, byte |-> r.byte,
                   pos |-> r.pos, storage |-> last.storage, from |-> last.pos]
    /\ nops' = nops + 1
    /\ UNCHANGED <<heap, caller, status>>
    /\ Frame

NextInput ==
    \/ \E bytes \in 0..(MaxLen + 1) : ReadInto(bytes, FALSE)
    \/ \E bytes \in 0..(MaxLen + 1) : ReadInto(bytes, TRUE)
    \/ ReadOne

SpecInput == InitInput /\ [][NextInput]_vars

---------------------------------------------------------------------------
(* A SpecificHash and its hex form *)

\* const char * const hexDigits= "0123456789abcdef"
hexDigits == <<48, 49, 50, 51, 52, 53, 54, 55, 56, 57, 97, 98, 99, 100, 101, 102>>

\* the loop of SpecificHash::hex, from the byte _hash[i] on
RECURSIVE hexLoop(_, _, _)
hexLoop(hash, i, value) ==
    IF i < Len(hash)
    THEN hexLoop(hash, i + 1,
                 Append(Append(value, hexDigits[(hash[i + 1] % 16) + 1]),
                        hexDigits[(hash[i + 1] \div 16) + 1]))
    ELSE value

\* SpecificHash::hex(value): value.clear(), then the loop
hex(hash, value) == hexLoop(hash, 0, <<>>)

\* a SpecificHash whose buffer holds Size bytes, and the string the caller
\* keeps
InitHash ==
    /\ build \in Builds
    /\ build.dangling = "intact"
    /\ heap = <<>> /\ caller = {} /\ status = "ok" /\ nops = 0
    /\ na = NULL /\ nb = NULL /\ nc = NULL /\ cmp = NoOp
    /\ \E hash \in [1..Size -> {0, 1, 15, 16, 171, 255}] :
       \E value \in {<<>>, <<120>>} :
          last = [op |-> "hash", hash |-> hash, value |-> value]

\* h.hex(value)
Hex ==
    /\ Running
    /\ last' = [op |-> "hex", hash |-> last.hash,
                value |-> hex(last.hash, last.value), held |-> last.value]
    /\ nops' = nops + 1
    /\ UNCHANGED <<heap, caller, status>>
    /\ Frame

NextHash == Hex

SpecHash == InitHash /\ [][NextHash]_vars

---------------------------------------------------------------------------
(* The codec: a caller that builds a tree and writes it, reads what was    *)
(* written, reads a wire form and writes the tree it got                   *)

\* trees the caller builds: a Dictionary gets a pair by d[key], which
\* leaves the value NULL until it is assigned; a List gets NULL by push
CodecLeaves ==
    {String(<<>>), String(<<97>>)}
    \cup {Integer(v) : v \in {0, 3, -3, IntMax, IntMin}}
CodecTrees ==
    CodecLeaves
    \cup {List(its) : its \in SeqsUpTo({NULL, String(<<97>>), Integer(3)}, MaxLen)}
    \cup {Dictionary(<<Element(String(<<97>>), v)>>) :
             v \in {NULL, String(<<97>>), List(<<NULL>>)}}
    \cup {Dictionary(<<>>),
          Dictionary(<<Element(Integer(3), Integer(3)),
                       Element(String(<<97>>), String(<<>>))>>),
          List(<<Dictionary(<<Element(String(<<97>>), NULL)>>)>>)}

\* d1:b1:x1:a1:ye, whose keys come unsorted, and its sorted form
\* d1:a1:y1:b1:xe
Wire_b_x_a_y == <<100, 49, 58, 98, 49, 58, 120, 49, 58, 97, 49, 58, 121, 101>>
Wire_a_y_b_x == <<100, 49, 58, 97, 49, 58, 121, 49, 58, 98, 49, 58, 120, 101>>

\* well-formed wire forms
WellFormedWires ==
    {<<105, 51, 101>>,                        \* i3e
     <<105, 45, 51, 101>>,                    \* i-3e
     <<48, 58>>,                              \* 0:
     <<49, 58, 97>>,                          \* 1:a
     <<108, 101>>,                            \* le
     <<108, 49, 58, 97, 105, 51, 101, 101>>,  \* l1:ai3ee
     <<100, 101>>,                            \* de
     <<100, 49, 58, 97, 49, 58, 98, 101>>,    \* d1:a1:be
     <<105, 48, 101>>,                        \* i0e
     <<105, 49, 53, 101>>,                    \* i15e
     <<105, 45, 49, 54, 101>>,                \* i-16e
     <<108, 49, 58, 98, 49, 58, 97, 101>>,    \* l1:b1:ae
     <<100, 49, 58, 97, 108, 101, 105, 51, 101, 105, 48, 101, 101>>, \* d1:alei3ei0ee
     Wire_b_x_a_y, Wire_a_y_b_x}

\* wire forms the source ends in the middle of
UnterminatedWires ==
    {<<105, 51>>,                             \* i3
     <<105>>,                                 \* i
     <<51>>,                                  \* 3
     <<108>>,                                 \* l
     <<108, 49, 58, 97>>,                     \* l1:a
     <<100>>,                                 \* d
     <<100, 49, 58, 97>>,                     \* d1:a
     <<100, 49, 58, 97, 49, 58, 98>>,         \* d1:a1:b
     <<108, 100>>}                            \* ld

\* three pairs of one-byte Strings, a:x, b:y, c:z, in sorted key order
SortedPairs == <<<<97, 120>>, <<98, 121>>, <<99, 122>>>>

\* the wire form of a dictionary of pairs of one-byte Strings
RECURSIVE PairsWire(_)
PairsWire(ps) ==
    IF ps = <<>> THEN <<>>
    ELSE <<49, Colon, Head(ps)[1], 49, Colon, Head(ps)[2]>> \o PairsWire(Tail(ps))

DictionaryWire(ps) == <<TagD>> \o PairsWire(ps) \o <<TagE>>

\* d4:eggs4:spam3:cow3:mooe and its sorted form d3:cow3:moo4:eggs4:spame
Wire_eggs_cow ==
    <<100, 52, 58, 101, 103, 103, 115, 52, 58, 115, 112, 97, 109,
      51, 58, 99, 111, 119, 51, 58, 109, 111, 111, 101>>
Wire_cow_eggs ==
    <<100, 51, 58, 99, 111, 119, 51, 58, 109, 111, 111,
      52, 58, 101, 103, 103, 115, 52, 58, 115, 112, 97, 109, 101>>

\* dictionaries on the wire in every order of their pairs
PermutedWires ==
    {DictionaryWire([i \in 1..3 |-> SortedPairs[p[i]]]) :
        p \in {q \in [1..3 -> 1..3] : \A i, j \in 1..3 : q[i] = q[j] => i = j}}
    \cup {Wire_eggs_cow}

\* the wire forms read: the above and other malformed forms
CodecWires ==
    WellFormedWires \cup UnterminatedWires \cup PermutedWires
    \cup {<<120>>,                            \* x
          <<50, 58, 97>>,                     \* 2:a
          <<49, 58>>,                         \* 1:
          <<108, 50, 58, 97, 101>>,           \* l2:ae
          <<105, 48, 51, 101>>,               \* i03e
          <<108, 120, 101>>,                  \* lxe
          <<105, 51, 101, 49, 58, 97>>,                       \* i3e1:a
          <<49, 58, 97, 105, 51, 101, 108, 101>>,             \* 1:ai3ele
          <<100, 49, 58, 97, 49, 58, 98, 101, 108, 105, 51, 101, 101>>, \* d1:a1:beli3ee
          <<100, 49, 58, 97, 49, 58, 120, 49, 58, 97, 49, 58, 121, 101>>,   \* d1:a1:x1:a1:ye
          <<100, 105, 53, 101, 49, 58, 120, 49, 58, 53, 49, 58, 121, 101>>, \* di5e1:x1:51:ye
          <<100, 49, 58, 53, 49, 58, 120, 105, 53, 101, 49, 58, 121, 101>>, \* d1:51:xi5e1:ye
          <<101>>,                            \* e
          <<49, 120, 58, 97>>,                \* 1x:a
          <<108, 49, 120, 58, 97, 101>>,      \* l1x:ae
          <<100, 120, 49, 58, 97, 101>>,      \* dx1:ae
          <<100, 49, 58, 97, 120, 101>>,      \* d1:axe
          <<108, 100, 49, 58, 97, 120, 101, 101>>}  \* ld1:axee

InitCodec ==
    /\ InitCommon
    /\ na = NULL /\ nb = NULL /\ nc = NULL

\* the caller builds the tree x
Construct(x) ==
    /\ last = NoOp
    /\ na' = x
    /\ last' = [op |-> "construct"]
    /\ UNCHANGED <<build, heap, caller, status, nops, nb, nc, cmp>>

\* whether write(out) of t returns: reading through the dangling
\* reference of itoa(value, base) may end the process
writeEnd(t, b) ==
    IF b.dangling = "crash" /\ ReadsDangling(t) THEN "crashed" ELSE "ok"

\* na->write(out) on an empty output, na the tree the caller built
Write ==
    /\ status = "ok"
    /\ last.op = "construct"
    /\ status' = writeEnd(na, build)
    /\ last' = [op |-> "write", of |-> "built", input |-> <<>>,
                out |-> IF writeEnd(na, build) = "ok" THEN write(na, build) ELSE <<>>]
    /\ UNCHANGED <<build, heap, caller, nops, na, nb, nc, cmp>>

\* what Item::read left: the heap, the root the caller owns, its tree
ReadDone(r, w, of) ==
    /\ heap' = r.heap
    /\ status' = r.end
    /\ caller' = IF r.end = "ok" /\ r.ptr # NullPtr THEN caller \cup {r.ptr} ELSE caller
    /\ nb' = IF r.end = "ok" THEN ToTree(r.heap, r.ptr) ELSE NULL
    /\ last' = [op |-> "read", of |-> of, input |-> w, ptr |-> r.ptr, pos |-> r.pos]
    /\ UNCHANGED <<build, nops, na, nc, cmp>>

\* Item::read on a ReferencedStringInput over what write produced
ReadWritten ==
    /\ status = "ok"
    /\ last.op = "write" /\ last.of = "built"
    /\ \E r \in {ItemRead(heap, last.out, 0, build)} : ReadDone(r, last.out, "written")

\* Item::read on a ReferencedStringInput over the wire form w
ReadWire(w) ==
    /\ status = "ok"
    /\ last = NoOp
    /\ \E r \in {ItemRead(heap, w, 0, build)} : ReadDone(r, w, "wire")

\* Item::read again on the same ReferencedStringInput, after a read that
\* returned a node and left bytes in the buffer
ReadNext ==
    /\ status = "ok"
    /\ last.op = "read" /\ last.of \in {"wire", "next"}
    /\ last.ptr # NullPtr /\ last.pos < Len(last.input)
    /\ \E r \in {ItemRead(heap, last.input, last.pos, build)} :
          /\ heap' = r.heap
          /\ status' = r.end
          /\ caller' = IF r.end = "ok" /\ r.ptr # NullPtr
                       THEN caller \cup {r.ptr} ELSE caller
          /\ nb' = IF r.end = "ok" THEN ToTree(r.heap, r.ptr) ELSE NULL
          /\ last' = [op |-> "read", of |-> "next", input |-> last.input,
                      ptr |-> r.ptr, pos |-> r.pos, from |-> last.pos,
                      index |-> IF last.of = "wire" THEN 2 ELSE last.index + 1]
    /\ UNCHANGED <<build, nops, na, nc, cmp>>

\* root->write(out) on an empty output, root the node read from a wire form
WriteBack ==
    /\ status = "ok"
    /\ last.op = "read" /\ last.of = "wire" /\ last.ptr # NullPtr
    /\ status' = writeEnd(nb, build)
    /\ last' = [op |-> "write", of |-> "read", input |-> last.input,
                out |-> IF writeEnd(nb, build) = "ok" THEN write(nb, build) ELSE <<>>]
    /\ UNCHANGED <<build, heap, caller, nops, na, nb, nc, cmp>>

NextCodec ==
    \/ \E x \in CodecTrees : Construct(x)
    \/ Write
    \/ ReadWritten
    \/ \E w \in CodecWires : ReadWire(w)
    \/ ReadNext
    \/ WriteBack

SpecCodec == InitCodec /\ [][NextCodec]_vars

---------------------------------------------------------------------------
(* Claims about the comparator and the components *)

Sign(x) == IF x < 0 THEN -1 ELSE IF x > 0 THEN 1 ELSE 0

\* C4: the Comparator is a total order over constructed nodes of mixed
\* variants, null slots included: compare(a,a) is equal, compare(a,b) and
\* compare(b,a) have opposite signs, and a <= b with b <= c gives a <= c.
TotalOrder ==
    cmp.op = "compare" =>
        /\ cmp.aa = 0
        /\ Sign(cmp.ab) = 0 - Sign(cmp.ba)
        /\ (cmp.ab <= 0 /\ cmp.bc <= 0) => cmp.ac <= 0

\* a List with a null slot below a Dictionary below a String
TotalOrderWitness ==
    /\ cmp.op = "compare"
    /\ na.type = "List" /\ \E i \in 1..Len(na.items) : na.items[i] = NULL
    /\ nb.type = "Dictionary" /\ \E i \in 1..Len(nb.pairs) : nb.pairs[i].second = NULL
    /\ nc.type = "String"
    /\ cmp.ab < 0 /\ cmp.bc < 0 /\ cmp.ac < 0

\* the components of a node as compare reads them
Components(t, b) ==
    [i \in 1..componentCount(t) |-> component(t, i - 1, <<>>, b)]

\* lexicographic order of two sequences of components, by sign
LexCompare(f, g) ==
    LET differ == {i \in 1..Min(Len(f), Len(g)) : f[i] # g[i]}
    IN IF differ # {}
       THEN LET i == CHOOSE j \in differ : \A k \in differ : j <= k
            IN StrCompare(f[i], g[i])
       ELSE Sign(Len(f) - Len(g))

\* C10: compare(a,b) is the lexicographic comparison of the two component
\* sequences (first differing component below the smaller componentCount,
\* else fewer components first, else equal), whatever the variant tags: an
\* Integer and a String of identical text compare equal.
CompareIsLexicographic ==
    cmp.op = "compare" =>
        /\ Sign(cmp.ab) = LexCompare(Components(na, build), Components(nb, build))
        /\ (na.type = "Integer" /\ nb.type = "String"
            /\ nb.str = itoa(na.int, <<>>, 10, build)) => cmp.ab = 0

\* Integer 5 against String "5"
CompareIsLexicographicWitness ==
    /\ cmp.op = "compare"
    /\ na = Integer(5)
    /\ nb = String(<<53>>)
    /\ cmp.ab = 0 /\ cmp.ba = 0

\* the flattening C9 states: one component for a String or an Integer,
\* the children's components in order for a List and, key then value, for a
\* Dictionary, a null slot being one empty component
RECURSIVE Flat(_, _)
RECURSIVE FlatAll(_, _)
FlatAll(ts, b) ==
    IF ts = <<>> THEN <<>> ELSE Flat(Head(ts), b) \o FlatAll(Tail(ts), b)

Flat(t, b) ==
    CASE t.type = "NULL" -> <<(<<>>)>>
      [] t.type = "String" -> <<t.str>>
      [] t.type = "Integer" -> <<itoa(t.int, <<>>, 10, b)>>
      [] t.type = "List" -> FlatAll(t.items, b)
      [] t.type = "Dictionary" ->
            FlatAll([i \in 1..(2 * Len(t.pairs)) |->
                        IF i % 2 = 1 THEN t.pairs[(i + 1) \div 2].first
                        ELSE t.pairs[i \div 2].second], b)

\* C9: componentCount and component are consistent for every node:
\* componentCount is the number of components of the flattening (a null
\* key or value counting 1) and component(i), 0 <= i < componentCount(),
\* enumerates that flattening in order.
ComponentsConsistent ==
    last.op = "flatten" =>
        /\ last.count = Len(Flat(na, build))
        /\ last.components = Flat(na, build)

---------------------------------------------------------------------------
(* The Dictionary invariant, under Spec *)

\* the keys of the Dictionary at d, as trees, in stored order
KeysOf(d) == [i \in 1..Len(heap[d].pairs) |-> ToTree(heap, heap[d].pairs[i].first)]

\* C1: after any sequence of Dictionary operations (d[key] with or without
\* assignment, has_key, remove, pairs installed by the parser, clone) every
\* Dictionary holds its pairs sorted by key under compare and no two of its
\* keys compare equal: an earlier key always compares below a later one
\* (while the process runs: d[NULL] ends it inside operator[])
DictionarySortedUnique ==
    status = "ok" =>
        \A d \in Live(heap) :
            heap[d].type = "Dictionary" =>
                /\ \A i \in 1..Len(heap[d].pairs) :
                      heap[d].pairs[i].first \in Live(heap)
                /\ \A i \in 1..Len(heap[d].pairs) : \A j \in 1..Len(heap[d].pairs) :
                      i < j => compare(KeysOf(d)[i], KeysOf(d)[j], build) < 0

\* a Dictionary holds two pairs, the key String "5" before the other, and
\* d[key] with the Integer 5, which compares equal to String "5", took the
\* pair stored under it and added none
DictionarySortedUniqueWitness ==
    /\ status = "ok"
    /\ last.op \in {"index", "assign"}
    /\ last.position = 1
    /\ Len(heap[last.owner].pairs) = 2
    /\ last.key.tree = Integer(5)
    /\ KeysOf(last.owner)[1] = String(<<53>>)

---------------------------------------------------------------------------
(* The codec laws, under SpecCodec *)

\* the re-encoding the canonical law allows for a wire form: the form
\* itself, or for d1:b1:x1:a1:ye the same pairs in sorted key order
Canonical(w) == IF w = Wire_b_x_a_y THEN Wire_a_y_b_x ELSE w

\* C2: round trip: reading the bytes that write produced for a built tree
\* returns a tree equal to the built one, variant by variant, null slots
\* included
RoundTrip ==
    last.op = "read" /\ last.of = "written" =>
        status = "ok" /\ last.ptr # NullPtr /\ nb = na

\* C3: canonical re-encode: writing the tree read from a well-formed wire
\* form reproduces the wire form byte for byte, a Dictionary whose keys
\* came unsorted being written in sorted key order
CanonicalReencode ==
    last.op = "write" /\ last.of = "read" /\ last.input \in WellFormedWires =>
        status = "ok" /\ last.out = Canonical(last.input)

\* C5: reading a form the source ends in the middle of (i3, l1:a, d1:a and
\* the like) is a decode failure: Item::read returns and returns no node
UnterminatedReturnsNoNode ==
    last.op = "read" /\ last.input \in UnterminatedWires =>
        status = "ok" /\ last.ptr = NullPtr

\* C6: Item::read returns, with a node or with none, on every finite input
ReadReturns == last.op = "read" => status # "hung"

---------------------------------------------------------------------------
(* Ownership, under Spec *)

\* the slots of live containers that hold the address a
SlotsHolding(a) ==
    UNION {{<<o, i>> : i \in {k \in 1..Len(Children(heap[o])) :
                                 Children(heap[o])[k] = a}} : o \in Live(heap)}

\* C7: when Item::read returns no node, every node allocated during the
\* call was freed: the live nodes are those that were live before it
FailedReadFreesAll ==
    last.op = "read" /\ status = "ok" /\ last.ptr = NullPtr => Live(heap) = last.live

\* C8: every node allocated and not freed has exactly one owner: the
\* caller, or one slot of one live container
TreeShapedOwnership ==
    status = "ok" =>
        \A a \in Live(heap) :
            Cardinality(SlotsHolding(a)) + (IF a \in caller THEN 1 ELSE 0) = 1

---------------------------------------------------------------------------
(* The canonical form, under SpecCodec *)

\* the decimal text of a natural number, no leading zeros
RECURSIVE NatText(_)
NatText(n) ==
    IF n < 10 THEN <<Zero + n>> ELSE NatText(n \div 10) \o <<Zero + (n % 10)>>

\* the canonical decimal text of an integer: - exactly for negative values
DecimalText(v) == IF v < 0 THEN <<Minus>> \o NatText(0 - v) ELSE NatText(v)

\* C11: for every Integer value v, zero, the minimum and the maximum
\* included, write produces i, the canonical decimal text of v (no leading
\* zeros, - exactly when v is negative), then e
IntegerWrittenCanonically ==
    last.op = "write" /\ last.of = "built" /\ na.type = "Integer" =>
        status = "ok" /\ last.out = <<TagI>> \o DecimalText(na.int) \o <<TagE>>

\* the depth-first canonical form of a tree, a null slot being 0:
RECURSIVE CanonicalForm(_)
RECURSIVE CanonicalForms(_)
CanonicalForms(ts) ==
    IF ts = <<>> THEN <<>>
    ELSE CanonicalForm(Head(ts)) \o CanonicalForms(Tail(ts))

CanonicalForm(t) ==
    CASE t.type = "NULL" -> <<Zero, Colon>>
      [] t.type = "String" -> NatText(Len(t.str)) \o <<Colon>> \o t.str
      [] t.type = "Integer" -> <<TagI>> \o DecimalText(t.int) \o <<TagE>>
      [] t.type = "List" -> <<TagL>> \o CanonicalForms(t.items) \o <<TagE>>
      [] t.type = "Dictionary" ->
            <<TagD>>
            \o CanonicalForms([i \in 1..(2 * Len(t.pairs)) |->
                                  IF i % 2 = 1 THEN t.pairs[(i + 1) \div 2].first
                                  ELSE t.pairs[i \div 2].second])
            \o <<TagE>>

\* C12: what write produces for a tree is its depth-first canonical form:
\* a String as decimal length, : and its bytes, a List as l, its slots in
\* order, e, a Dictionary as d, key then value of each pair in stored
\* order, e, every null slot written as 0:
WrittenCanonically ==
    last.op = "write" =>
        /\ status = "ok"
        /\ last.out = CanonicalForm(IF last.of = "built" THEN na ELSE nb)

\* the Dictionary and the wire form the pairs of a permuted wire form
\* give in sorted key order
SortedTree(w) ==
    IF w = Wire_eggs_cow
    THEN Dictionary(<<Element(String(<<99, 111, 119>>), String(<<109, 111, 111>>)),
                      Element(String(<<101, 103, 103, 115>>),
                              String(<<115, 112, 97, 109>>))>>)
    ELSE Dictionary([i \in 1..3 |-> Element(String(<<SortedPairs[i][1]>>),
                                            String(<<SortedPairs[i][2]>>))])

SortedWire(w) == IF w = Wire_eggs_cow THEN Wire_cow_eggs ELSE DictionaryWire(SortedPairs)

\* C13: a dictionary whose keys come in any order on the wire is accepted:
\* Item::read returns a Dictionary holding the pairs in sorted key order,
\* and writing it emits the pairs in sorted order (d4:eggs4:spam3:cow3:mooe
\* gives d3:cow3:moo4:eggs4:spame)
UnsortedDictionaryResorted ==
    /\ last.op = "read" /\ last.input \in PermutedWires =>
          status = "ok" /\ last.ptr # NullPtr /\ nb = SortedTree(last.input)
    /\ last.op = "write" /\ last.of = "read" /\ last.input \in PermutedWires =>
          status = "ok" /\ last.out = SortedWire(last.input)

---------------------------------------------------------------------------
(* The Dictionary operations, under Spec *)

\* whether the pairs ps hold a key that compares equal to the tree k
HoldsKey(ps, k) ==
    \E i \in 1..Len(ps) : compare(k, ToTree(heap, ps[i].first), build) = 0

\* C14: d[key] without assignment, for a key that is not null: when a pair
\* with an equal key exists the handle refers to that pair and the pairs
\* are unchanged; otherwise exactly one pair (clone(key), null) is inserted
\* at the sorted position, the other pairs are unchanged, and the handle
\* refers to the new pair
IndexFindsOrInserts ==
    last.op = "index" /\ status = "ok" =>
        IF HoldsKey(last.before, last.key.tree)
        THEN /\ heap[last.owner].pairs = last.before
             /\ Live(heap) = last.live
             /\ compare(last.key.tree, KeysOf(last.owner)[last.position], build) = 0
        ELSE /\ heap[last.owner].pairs =
                    InsertAt(last.before, last.position,
                             heap[last.owner].pairs[last.position])
             /\ heap[last.owner].pairs[last.position].second = NullPtr
             /\ heap[last.owner].pairs[last.position].first \in Live(heap) \ last.live
             /\ heap[last.owner].pairs[last.position].first # last.key.ptr
             /\ KeysOf(last.owner)[last.position] = last.key.tree
             /\ \A i \in 1..Len(heap[last.owner].pairs) :
                   /\ i < last.position =>
                         compare(KeysOf(last.owner)[i], last.key.tree, build) < 0
                   /\ i > last.position =>
                         compare(KeysOf(last.owner)[i], last.key.tree, build) > 0

\* d[key] alone added a pair, in front of a pair that d already held
IndexFindsOrInsertsWitness ==
    /\ last.op = "index" /\ status = "ok"
    /\ Len(last.before) >= 1
    /\ Len(heap[last.owner].pairs) = Len(last.before) + 1
    /\ last.position <= Len(last.before)

\* C15: has_key(key) returns true exactly when the Dictionary holds a
\* pair whose key compares equal to key, and leaves the pairs as they
\* were: none inserted, removed or reordered
HasKeyLooksUpOnly ==
    last.op = "has_key" /\ status = "ok" =>
        /\ last.found = HoldsKey(last.before, last.key.tree)
        /\ heap[last.owner].pairs = last.before
        /\ Live(heap) = last.live

\* has_key with the Integer 5 on the caller's stack answered true for a
\* Dictionary of two pairs that holds the String "5"
HasKeyLooksUpOnlyWitness ==
    /\ last.op = "has_key" /\ status = "ok"
    /\ last.found
    /\ last.key = StackKey(Integer(5))
    /\ Len(last.before) = 2

\* the number of nodes of a tree
RECURSIVE TreeSize(_)
RECURSIVE TreeSizes(_, _)
TreeSizes(ts, i) ==
    IF i > Len(ts) THEN 0 ELSE TreeSize(ts[i]) + TreeSizes(ts, i + 1)

TreeSize(t) ==
    CASE t.type = "NULL" -> 0
      [] t.type = "List" -> 1 + TreeSizes(t.items, 1)
      [] t.type = "Dictionary" ->
            1 + TreeSizes([i \in 1..(2 * Len(t.pairs)) |->
                              IF i % 2 = 1 THEN t.pairs[(i + 1) \div 2].first
                              ELSE t.pairs[i \div 2].second], 1)
      [] OTHER -> 1

\* the positions of the pairs of the Dictionary tree t whose key compares
\* equal to the tree k
PositionsOf(t, k) ==
    {i \in 1..Len(t.pairs) : compare(k, t.pairs[i].first, build) = 0}

\* C16: remove(key): when a pair with an equal key exists exactly that
\* pair is erased, its key node is freed, its value is returned to the
\* caller and not freed, and the other pairs keep their order; when there
\* is none, remove returns null and the Dictionary is unchanged
RemoveErasesOnePair ==
    last.op = "remove" /\ status = "ok" =>
        IF PositionsOf(last.tree, last.key.tree) # {}
        THEN \E i \in PositionsOf(last.tree, last.key.tree) :
                /\ heap[last.owner].pairs = RemoveAt(last.before, i)
                /\ ToTree(heap, last.owner) = Dictionary(RemoveAt(last.tree.pairs, i))
                /\ heap[last.before[i].first].type = "freed"
                /\ last.ptr = last.before[i].second
                /\ ToTree(heap, last.ptr) = last.tree.pairs[i].second
                /\ last.ptr # NullPtr => last.ptr \in caller
                /\ Live(heap) \subseteq last.live
                /\ Cardinality(Live(heap)) =
                      Cardinality(last.live) - TreeSize(last.tree.pairs[i].first)
        ELSE /\ last.ptr = NullPtr
             /\ heap[last.owner].pairs = last.before
             /\ Live(heap) = last.live

\* remove took the first of two pairs and returned the String it held
RemoveErasesOnePairWitness ==
    /\ last.op = "remove" /\ status = "ok"
    /\ Len(last.before) = 2
    /\ PositionsOf(last.tree, last.key.tree) = {1}
    /\ last.ptr # NullPtr
    /\ heap[last.ptr].type = "String"

\* the node in the value slot the last assignment went to
Assigned == heap[last.owner].pairs[last.position].second

\* C17: assigning through the handle: an integer or a string frees the
\* node in the slot, if any, and installs a new Integer or String; a node
\* frees the node in the slot and installs the given node, except that the
\* very node in the slot is left as it is and nothing is freed; the former
\* occupant is freed once
AssignmentReplaces ==
    last.op = "assign" /\ status = "ok" =>
        /\ \A a \in 1..Len(heap) : heap[a].type # "freed twice"
        /\ last.kind = "integer" =>
              /\ ToTree(heap, Assigned) = Integer(last.value)
              /\ Assigned \in Live(heap)
              /\ Cardinality(Live(heap)) =
                    Cardinality(last.live) - TreeSize(last.tree) + 1
        /\ last.kind = "string" =>
              /\ ToTree(heap, Assigned) = String(last.value)
              /\ Assigned \in Live(heap)
              /\ Cardinality(Live(heap)) =
                    Cardinality(last.live) - TreeSize(last.tree) + 1
        /\ last.kind = "item" /\ last.value = last.old =>
              /\ Assigned = last.old
              /\ ToTree(heap, Assigned) = last.tree
              /\ Live(heap) = last.live
        /\ last.kind = "item" /\ last.value # last.old =>
              /\ Assigned = last.value
              /\ ToTree(heap, Assigned) = last.given
              /\ last.old # NullPtr => heap[last.old].type = "freed"
              /\ Live(heap) \subseteq last.live
              /\ Cardinality(Live(heap)) = Cardinality(last.live) - TreeSize(last.tree)

\* a node the caller owned replaced another node in the slot
AssignmentReplacesWitness ==
    /\ last.op = "assign" /\ status = "ok"
    /\ last.kind = "item"
    /\ last.old # NullPtr
    /\ last.value \notin {NullPtr, last.old}

\* C18: indexing a List at index >= count() extends it with null slots to
\* index + 1 slots, leaves the slots it had as they were and yields the
\* null slot at index; indexing below count() leaves the List as it was and
\* yields the slot; nothing else in the heap changes
ListIndexExtends ==
    last.op = "at" =>
        IF last.index >= Len(last.before)
        THEN /\ Len(heap[last.owner].items) = last.index + 1
             /\ SubSeq(heap[last.owner].items, 1, Len(last.before)) = last.before
             /\ \A i \in (Len(last.before) + 1)..(last.index + 1) :
                   heap[last.owner].items[i] = NullPtr
             /\ last.item = NullPtr
             /\ heap = [last.pre EXCEPT ![last.owner].items = heap[last.owner].items]
        ELSE /\ heap = last.pre
             /\ last.item = last.before[last.index + 1]

\* a const List that held a String was indexed two or more past its end
ListIndexExtendsWitness ==
    /\ last.op = "at" /\ last.const
    /\ Len(last.before) > 0 /\ last.before[1] # NullPtr
    /\ last.index > Len(last.before)
    /\ Len(heap[last.owner].items) = last.index + 1

\* C19: clone() returns a tree equal to the source, variant by variant,
\* made of nodes that were not allocated before the call; it allocates no
\* other node and leaves the nodes that existed as they were
CloneIndependent ==
    last.op = "clone" /\ status = "ok" =>
        /\ ToTree(heap, last.ptr) = last.tree
        /\ ToTree(heap, last.source) = last.tree
        /\ compare(ToTree(heap, last.ptr), last.tree, build) = 0
        /\ last.ptr \notin Live(last.pre)
        /\ \A a \in Live(last.pre) : heap[a] = last.pre[a]
        /\ Cardinality(Live(heap)) =
              Cardinality(Live(last.pre)) + TreeSize(last.tree)

---------------------------------------------------------------------------
(* Reading into a string, under SpecInput *)

\* C20: read(bytes, storage), of Input and of ReferencedStringInput, leaves
\* in storage what it held followed by the next min(bytes, remaining) bytes
\* of the buffer, and moves the position past them
ReadAppends ==
    last.op = "read into" =>
        /\ last.storage =
              last.held \o SubSeq(last.input, last.from + 1,
                                  last.from + Min(last.bytes, Len(last.input) - last.from))
        /\ last.pos = last.from + Min(last.bytes, Len(last.input) - last.from)

\* C21: after any sequence of reads end() is true exactly when the
\* position has reached the end of the buffer, and false while a byte can
\* still be read
EndAtEndOnly ==
    last.op \in {"open", "read into", "read byte"} =>
        (end(last.input, last.pos) <=> last.pos >= Len(last.input))

---------------------------------------------------------------------------
(* Malformed input, under SpecCodec *)

\* 2:a and 1:, and l2:ae where the String takes the e of the List
ShortBodyWires == {<<50, 58, 97>>, <<49, 58>>, <<108, 50, 58, 97, 101>>}

\* C22: a String whose length prefix declares more bytes than the source
\* has left is a decode failure: Item::read returns no node
ShortBodyReturnsNoNode ==
    last.op = "read" /\ last.input \in ShortBodyWires =>
        status = "ok" /\ last.ptr = NullPtr

\* x, e: a leading byte that opens no element; 1x:a, l1x:ae: a byte other
\* than a digit in a length; lxe: a List element that fails; dx1:ae: a
\* Dictionary key that fails; d1:axe, ld1:axee: a Dictionary value that fails
GrammarViolations ==
    {<<120>>, <<101>>, <<49, 120, 58, 97>>, <<108, 49, 120, 58, 97, 101>>,
     <<108, 120, 101>>, <<100, 120, 49, 58, 97, 101>>,
     <<100, 49, 58, 97, 120, 101>>, <<108, 100, 49, 58, 97, 120, 101, 101>>}

---------------------------------------------------------------------------
(* The null key, under Spec *)

\* C24: d[key], has_key and remove with the null pointer for key return,
\* and d then holds the pair of the null key at the front, its sorted
\* position, or holds none after remove
NullKeyTolerated ==
    last.op \in {"index", "assign", "has_key", "remove"} /\ last.key.ptr = NullPtr =>
        /\ status = "ok"
        /\ last.op \in {"index", "assign"} =>
              /\ heap[last.owner].pairs # <<>>
              /\ heap[last.owner].pairs[1].first = NullPtr

---------------------------------------------------------------------------
(* Well-formed input, under SpecCodec *)

\* the tree each well-formed wire form denotes; the pairs of a Dictionary
\* in the order of their keys
Denoted ==
    {<<<<105, 51, 101>>, Integer(3)>>,
     <<<<105, 45, 51, 101>>, Integer(-3)>>,
     <<<<105, 48, 101>>, Integer(0)>>,
     <<<<105, 49, 53, 101>>, Integer(15)>>,
     <<<<105, 45, 49, 54, 101>>, Integer(-16)>>,
     <<<<48, 58>>, String(<<>>)>>,
     <<<<49, 58, 97>>, String(<<97>>)>>,
     <<<<108, 101>>, List(<<>>)>>,
     <<<<108, 49, 58, 97, 105, 51, 101, 101>>, List(<<String(<<97>>), Integer(3)>>)>>,
     <<<<108, 49, 58, 98, 49, 58, 97, 101>>, List(<<String(<<98>>), String(<<97>>)>>)>>,
     <<<<100, 101>>, Dictionary(<<>>)>>,
     <<<<100, 49, 58, 97, 49, 58, 98, 101>>,
       Dictionary(<<Element(String(<<97>>), String(<<98>>))>>)>>,
     <<<<100, 49, 58, 97, 108, 101, 105, 51, 101, 105, 48, 101, 101>>,
       Dictionary(<<Element(Integer(3), Integer(0)),
                    Element(String(<<97>>), List(<<>>))>>)>>,
     <<Wire_b_x_a_y, Dictionary(<<Element(String(<<97>>), String(<<121>>)),
                                  Element(String(<<98>>), String(<<120>>))>>)>>,
     <<Wire_a_y_b_x, Dictionary(<<Element(String(<<97>>), String(<<121>>)),
                                  Element(String(<<98>>), String(<<120>>))>>)>>}

\* C25: Item::read on a well-formed wire form returns the tree the form
\* denotes: the String of the n bytes, the Integer of the signed decimal
\* value, the List of the children in the order met, the Dictionary of the
\* pairs read
ReadBuildsDenoted ==
    \A dn \in Denoted :
        last.op = "read" /\ last.input = dn[1] =>
            status = "ok" /\ last.ptr # NullPtr /\ nb = dn[2]

\* l1:b1:ae was read as the List of b, then a
ReadBuildsDenotedWitness ==
    /\ last.op = "read" /\ status = "ok"
    /\ last.input = <<108, 49, 58, 98, 49, 58, 97, 101>>
    /\ nb = List(<<String(<<98>>), String(<<97>>)>>)

---------------------------------------------------------------------------
(* The hex form of a hash, under SpecHash *)

\* the lowercase hex digit of a nibble
HexDigit(n) == IF n < 10 THEN Zero + n ELSE 97 + (n - 10)

\* C26: hex(value) leaves in value, whatever it held, 2 * Size lowercase
\* hex digits: byte i of the hash at positions 2i and 2i + 1, its high
\* nibble, then its low nibble
HexHighNibbleFirst ==
    last.op = "hex" =>
        /\ Len(last.value) = 2 * Size
        /\ \A i \in 0..(Size - 1) :
              /\ last.value[2 * i + 1] = HexDigit(last.hash[i + 1] \div 16)
              /\ last.value[2 * i + 2] = HexDigit(last.hash[i + 1] % 16)

---------------------------------------------------------------------------
(* Equal keys on the wire, under SpecCodec *)

\* d1:a1:x1:a1:ye, di5e1:x1:51:ye and d1:51:xi5e1:ye, each with the
\* Dictionary of the first key and the last value
EqualKeys ==
    {<<<<100, 49, 58, 97, 49, 58, 120, 49, 58, 97, 49, 58, 121, 101>>,
       Dictionary(<<Element(String(<<97>>), String(<<121>>))>>)>>,
     <<<<100, 105, 53, 101, 49, 58, 120, 49, 58, 53, 49, 58, 121, 101>>,
       Dictionary(<<Element(Integer(5), String(<<121>>))>>)>>,
     <<<<100, 49, 58, 53, 49, 58, 120, 105, 53, 101, 49, 58, 121, 101>>,
       Dictionary(<<Element(String(<<53>>), String(<<121>>))>>)>>}

\* C28: a dictionary on the wire with two keys that compare equal is read
\* as a Dictionary of one pair, the key as the first was read, the value
\* the one read last, and the value read first is freed
EqualKeysKeepOnePair ==
    \A ek \in EqualKeys :
        last.op = "read" /\ last.input = ek[1] =>
            /\ status = "ok" /\ last.ptr # NullPtr
            /\ nb = ek[2]
            /\ \A a \in Live(heap) : heap[a] # String(<<120>>)
            /\ \E a \in 1..Len(heap) : heap[a].type = "freed"
            /\ \A a \in 1..Len(heap) : heap[a].type # "freed twice"

\* di5e1:x1:51:ye was read as the Dictionary of Integer 5 and y
EqualKeysKeepOnePairWitness ==
    /\ last.op = "read" /\ status = "ok"
    /\ last.input = <<100, 105, 53, 101, 49, 58, 120, 49, 58, 53, 49, 58, 121, 101>>
    /\ nb = Dictionary(<<Element(Integer(5), String(<<121>>))>>)

---------------------------------------------------------------------------
(* Integers in the order, under SpecCompare *)

\* C29: two Integers compare as the strings of their canonical decimal
\* texts do, not as their values: 10 before 9, -1 before -2
IntegersCompareAsText ==
    cmp.op = "compare" /\ na.type = "Integer" /\ nb.type = "Integer" =>
        Sign(cmp.ab) = Sign(StrCompare(DecimalText(na.int), DecimalText(nb.int)))

---------------------------------------------------------------------------
(* Elements one after another in one source, under SpecCodec *)

\* i3e1:a, 1:ai3ele and d1:a1:beli3ee: the elements of each, each with the
\* position right after its last byte
Concatenated ==
    {<<<<105, 51, 101, 49, 58, 97>>,
       <<<<Integer(3), 3>>, <<String(<<97>>), 6>>>>>>,
     <<<<49, 58, 97, 105, 51, 101, 108, 101>>,
       <<<<String(<<97>>), 3>>, <<Integer(3), 6>>, <<List(<<>>), 8>>>>>>,
     <<<<100, 49, 58, 97, 49, 58, 98, 101, 108, 105, 51, 101, 101>>,
       <<<<Dictionary(<<Element(String(<<97>>), String(<<98>>))>>), 8>>,
         <<List(<<Integer(3)>>), 13>>>>>>}

\* the number of the read that came last on the source
ReadIndex == IF last.of = "next" THEN last.index ELSE 1

\* C30: each Item::read on a source of well-formed elements one after
\* another returns the next element and leaves the position right after its
\* last byte
ReadsOneElement ==
    \A cc \in Concatenated :
        last.op = "read" /\ last.of \in {"wire", "next"} /\ last.input = cc[1] =>
            /\ status = "ok"
            /\ ReadIndex <= Len(cc[2])
            /\ nb = cc[2][ReadIndex][1]
            /\ last.pos = cc[2][ReadIndex][2]

\* the third read on 1:ai3ele returned the empty List at the end of the
\* source
ReadsOneElementWitness ==
    /\ last.op = "read" /\ last.of = "next" /\ status = "ok"
    /\ last.input = <<49, 58, 97, 105, 51, 101, 108, 101>>
    /\ last.index = 3
    /\ nb = List(<<>>)
    /\ last.pos = Len(last.input)

====
